---------------------------- MODULE Spec2Model ----------------------------
(***************************************************************************)
(* Model of the invoice generator of src/app.py: a Streamlit script that   *)
(* is re-executed from top to bottom on every user interaction, over the   *)
(* session state it keeps between executions, and the document renderer    *)
(* generate_invoice_docx.                                                  *)
(*                                                                         *)
(* One action of the model is one interaction: the widget event the        *)
(* browser sends plus the complete script execution it triggers (and the   *)
(* immediate second execution after st.experimental_rerun()).              *)
(*                                                                         *)
(* Amounts are exact decimals counted in units of 0.0001 BHD: unit prices  *)
(* are entered in whole mils (0.001 BHD, the "%.3f" of the price widget),  *)
(* so every product, sum and the 10 % VAT is an exact number of units.     *)
(* The binary rounding error of the Python floats (about 1e-16 relative)   *)
(* is below this resolution and is visible only where "%.3f" formatting    *)
(* meets an exact decimal tie, see Fmt3.                                   *)
(***************************************************************************)
EXTENDS Integers, Sequences, FiniteSets, TLC

VARIABLES
    line_items,                 \* st.session_state.line_items
    widgets,                    \* the item widgets of the last execution, by position (keys desc_i, price_i, qty_i)
    form,                       \* the values of the widgets inside st.form("invoice_form")
    invoice_data_ready,         \* st.session_state.invoice_data_ready
    invoice_data_for_preview,   \* st.session_state.invoice_data_for_preview: <<>> while unset, else <<invoice_data>>
    generated_docx_data,        \* st.session_state.generated_docx_data: <<>> for None/unset, else <<bytes>>
    generated_docx_filename,    \* st.session_state.generated_docx_filename: <<>> for None/unset
    summary,                    \* total_subtotal, vat_amount, grand_total of the last execution
    ui,                         \* what the last execution put on the page besides the form
    last_event,                 \* the widget event that triggered the last execution
    runs                        \* number of interactions of the session so far

vars == <<line_items, widgets, form, invoice_data_ready, invoice_data_for_preview,
          generated_docx_data, generated_docx_filename, summary, ui,
          last_event, runs>>

---------------------------------------------------------------------------
(* Bounds and input sets *)

MaxRuns == 7                    \* interactions explored per session

\* vat_rate = 0.10
vat_rate_percent == 10

\* units in 0.001 BHD: fine enough for the VAT of a whole number of mils to be exact
Mil == 100 \div vat_rate_percent
BHD == 1000 * Mil               \* units in 1 BHD

Descriptions == {"", "Consulting"}
UnitPrices == {0, 5 * Mil, 100 * BHD}
Quantities == {1, 2}

\* what a user may type into the number widgets, below their minimum included
TypedUnitPrices == UnitPrices \cup {-(5 * Mil)}
TypedQuantities == Quantities \cup {0}

\* min_value of the unit price widget and of the quantity widget
price_min_value == 0
qty_min_value == 1

\* variant: a number widget without a minimum
number_input_accepts_Any(min_value, v) == TRUE

\* st.number_input(..., min_value=...): the widget takes no value below its minimum
number_input_accepts(min_value, v) == v >= min_value

DefaultForm ==
    [to_company |-> "ABC Company W.L.L.",
     customer_address |-> "Building 123, Road 456, Block 789, Manama, Bahrain",
     customer_tel |-> "+973 17XXXXXX",
     attn_person |-> "Mr. John Doe",
     customer_email |-> "john.doe@abccompany.com",
     customer_po |-> "PO-12345",
     invoice_date |-> <<2026, 11, 2>>,
     sss_invoice_no |-> "SSS-261102-001",
     customer_vat_no |-> "VAT123456789",
     payment_terms |-> "30 days from invoice date"]

Forms ==
    {DefaultForm,
     [DefaultForm EXCEPT !.to_company = "XYZ Trading", !.sss_invoice_no = "SSS-261102-002",
                         !.payment_terms = "Cash on delivery"]}

---------------------------------------------------------------------------
(* Arithmetic of the script *)

RECURSIVE SumTotals(_)
SumTotals(items) ==
    IF items = <<>> THEN 0
    ELSE SumTotals(SubSeq(items, 1, Len(items) - 1)) + items[Len(items)].total_price

VatOf(total_subtotal) == (total_subtotal * vat_rate_percent) \div 100

Totals(total_subtotal) ==
    [total_subtotal |-> total_subtotal,
     vat_amount |-> VatOf(total_subtotal),
     grand_total |-> total_subtotal + VatOf(total_subtotal)]

---------------------------------------------------------------------------
(* Item widgets.  A widget of the page is identified by its key and its   *)
(* parameters, the default value among them: a call whose key and default *)
(* are those of a widget of the previous execution is that widget and      *)
(* returns the value the browser holds for it; any other call creates a    *)
(* widget that returns its default.                                        *)

NewWidget(param) == [default |-> param, value |-> param]

\* variant: a widget identified by its key alone keeps the value of its position
Widget_KeyOnly(store, k, field, param) ==
    IF k <= Len(store) THEN store[k][field] ELSE NewWidget(param)

Widget(store, k, field, param) ==
    IF k <= Len(store) /\ store[k][field].default = param
    THEN store[k][field]
    ELSE NewWidget(param)

\* st.text_input("Description", item['description'], key=f"desc_{i}")
text_input(store, k, item) == Widget(store, k, "description", item.description)

\* st.number_input("Unit price (BHD)", min_value=0.000, value=float(item['unit_price']), key=f"price_{i}")
price_input(store, k, item) == Widget(store, k, "unit_price", item.unit_price)

\* st.number_input("Qty", min_value=1, value=int(item['quantity']), step=1, key=f"qty_{i}")
qty_input(store, k, item) == Widget(store, k, "quantity", item.quantity)

\* the widgets the loop puts on the page, by position
LoopWidgets(store, items) ==
    [k \in 1..Len(items) |->
        [description |-> text_input(store, k, items[k]),
         unit_price |-> price_input(store, k, items[k]),
         quantity |-> qty_input(store, k, items[k])]]

\* variant: the quantity is left out of the line total
total_price_NoQty(unit_price, quantity) == unit_price

\* item['total_price'] = item['unit_price'] * item['quantity']
total_price(unit_price, quantity) == unit_price * quantity

\* the items as the loop leaves them: each field is what its widget returned
LoopItems(store, items) ==
    LET w == LoopWidgets(store, items) IN
    [k \in 1..Len(items) |->
        [description |-> w[k].description.value,
         unit_price |-> w[k].unit_price.value,
         quantity |-> w[k].quantity.value,
         total_price |-> total_price(w[k].unit_price.value, w[k].quantity.value)]]

\* the browser's event for an edited item widget: the new value of the widget on the page
FrontendEdit(store, i, field, value) == [store EXCEPT ![i][field].value = value]

NewItem == [description |-> "", unit_price |-> 0, quantity |-> 1, total_price |-> 0]

\* del st.session_state.line_items[i], i counted from 1 here
DelItem(items, i) == SubSeq(items, 1, i - 1) \o SubSeq(items, i + 1, Len(items))

---------------------------------------------------------------------------
(* The record of a submit.  Its "line_items" entry is the list object of   *)
(* the session state itself, not a copy of it.                             *)

LineItemsObject == "st.session_state.line_items"

\* invoice_date.strftime("%d-%m-%Y")
Strftime(date) == <<date[3], date[2], date[1]>>

invoice_data(f, totals) ==
    [to_company |-> f.to_company,
     customer_address |-> f.customer_address,
     customer_tel |-> f.customer_tel,
     attn_person |-> f.attn_person,
     customer_email |-> f.customer_email,
     customer_po |-> f.customer_po,
     invoice_date |-> Strftime(f.invoice_date),
     sss_invoice_no |-> f.sss_invoice_no,
     customer_vat_no |-> f.customer_vat_no,
     line_items |-> LineItemsObject,
     subtotal |-> totals.total_subtotal,
     vat_amount |-> totals.vat_amount,
     grand_total |-> totals.grand_total,
     payment_terms |-> f.payment_terms]

\* a stored record as its readers see it: the list entry followed to the list
Resolve(data, items) == [data EXCEPT !.line_items = items]

---------------------------------------------------------------------------
(* The renderer.  A document is modelled by the texts it carries, table by *)
(* table; a cell is [s, n]: a literal text s, or a format s applied to a   *)
(* number.                                                                 *)

\* f"{x:.3f}": x rounded to whole mils.  On an exact decimal tie the result is
\* decided by the rounding error of the float that holds x, so both neighbours
\* are texts the formatting can yield.
Fmt3(x) ==
    LET lo == x \div Mil
        r == x % Mil
    IN  IF 2 * r < Mil THEN {lo} ELSE IF 2 * r > Mil THEN {lo + 1} ELSE {lo, lo + 1}

Text(s) == [s |-> <<s>>, n |-> {}]
Str(v) == [s |-> <<"str">>, n |-> {v}]
Amount(x) == [s |-> <<"%.3f">>, n |-> Fmt3(x)]
AmountBHD(x) == [s |-> <<"%.3f BHD">>, n |-> Fmt3(x)]
DateText(d) == [s |-> <<"%d-%m-%Y">> \o d, n |-> {}]

min_rows_to_show == 5

item_table_headers ==
    <<Text("No"), Text("Description"), Text("Unit price"), Text("BHD"),
      Text("Qty"), Text("Total price"), Text("BHD")>>

\* variant: rows numbered from 0, the loop index as it is
ItemRow_ZeroBased(i, item) ==
    <<Str(i - 1), Text(item.description), Amount(item.unit_price), Text("BHD"),
      Str(item.quantity), Amount(item.total_price), Text("BHD")>>

ItemRow(i, item) ==
    <<Str(i), Text(item.description), Amount(item.unit_price), Text("BHD"),
      Str(item.quantity), Amount(item.total_price), Text("BHD")>>

BlankRow == [c \in 1..7 |-> Text("")]

PadRows(num_existing_items) ==
    IF num_existing_items < min_rows_to_show
    THEN [r \in 1..(min_rows_to_show - num_existing_items) |-> BlankRow]
    ELSE <<>>

item_table(items) ==
    <<item_table_headers>> \o [i \in 1..Len(items) |-> ItemRow(i, items[i])] \o PadRows(Len(items))

data_rows(d) ==
    <<<<Text("To:"), Text(d.to_company), Text("Date:"), DateText(d.invoice_date)>>,
      <<Text("Address:"), Text(d.customer_address), Text("SSS Invoice No:"), Text(d.sss_invoice_no)>>,
      <<Text("Tel:"), Text(d.customer_tel), Text("Customer VAT No.:"), Text(d.customer_vat_no)>>,
      <<Text("ATTN:"), Text(d.attn_person), Text(""), Text("")>>,
      <<Text("Email:"), Text(d.customer_email), Text(""), Text("")>>,
      <<Text("Customer PO#:"), Text(d.customer_po), Text(""), Text("")>> >>

summary_table(d) ==
    <<<<Text("Subtotal:"), AmountBHD(d.subtotal)>>,
      <<Text("VAT @ 10%:"), AmountBHD(d.vat_amount)>>,
      <<Text("Grand Total in BHD"), AmountBHD(d.grand_total)>> >>

\* d is the record with its line_items entry followed to the list
generate_invoice_docx(d) ==
    [title |-> Text("TAX INVOICE/DELIVERY NOTE"),
     header_info_table |-> data_rows(d),
     item_table |-> item_table(d.line_items),
     summary_table |-> summary_table(d),
     terms_para1 |-> <<Text("Payment terms: "), Text(d.payment_terms)>>]

\* f"Invoice_{preview_data['sss_invoice_no']}.docx"
DocxFilename(d) == <<"Invoice_", d.sss_invoice_no, ".docx">>

---------------------------------------------------------------------------
(* One execution of the script, section by section, over a session record  *)
(* S (the session state plus the page).  ev is the widget event that       *)
(* triggered the execution.                                                *)

NoEvent == [type |-> "none", i |-> 0]

NoPage == [warning |-> FALSE, success |-> FALSE, download |-> <<>>]

\* variant: the new item is put in front of the list
AddSection_Prepend(S, ev) ==
    IF ev.type = "add"
    THEN [S EXCEPT !.line_items = <<NewItem>> \o S.line_items,
                   !.invoice_data_ready = FALSE,
                   !.generated_docx_data = <<>>]
    ELSE S

\* variant: an added item leaves the preview flag alone
AddSection_KeepsReady(S, ev) ==
    IF ev.type = "add"
    THEN [S EXCEPT !.line_items = Append(S.line_items, NewItem),
                   !.generated_docx_data = <<>>]
    ELSE S

\* lines 412-415
AddSection(S, ev) ==
    IF ev.type = "add"
    THEN [S EXCEPT !.line_items = Append(S.line_items, NewItem),
                   !.invoice_data_ready = FALSE,
                   !.generated_docx_data = <<>>]
    ELSE S

\* lines 417-433
LoopSection(S) ==
    LET items == LoopItems(S.widgets, S.line_items) IN
    [S EXCEPT !.line_items = items,
              !.widgets = LoopWidgets(S.widgets, S.line_items),
              !.summary = Totals(SumTotals(items))]

\* variant: a removal that leaves the preview flag alone
RemoveSection_KeepsReady(S, ev) ==
    IF ev.type = "remove"
    THEN [S EXCEPT !.line_items = DelItem(S.line_items, ev.i),
                   !.generated_docx_data = <<>>]
    ELSE S

\* lines 434-441: the click on "Remove Item i" and the deletion after the loop
RemoveSection(S, ev) ==
    IF ev.type = "remove"
    THEN [S EXCEPT !.line_items = DelItem(S.line_items, ev.i),
                   !.invoice_data_ready = FALSE,
                   !.generated_docx_data = <<>>]
    ELSE S

\* variant: the rejected submit leaves the file name of an earlier document
SubmitSection_KeepsFilename(S, ev) ==
    IF ev.type # "submit" THEN S
    ELSE IF S.line_items = <<>>
    THEN [S EXCEPT !.page.warning = TRUE,
                   !.invoice_data_ready = FALSE,
                   !.generated_docx_data = <<>>]
    ELSE [S EXCEPT !.page.success = TRUE,
                   !.invoice_data_for_preview = <<invoice_data(S.form, S.summary)>>,
                   !.invoice_data_ready = TRUE,
                   !.generated_docx_data = <<>>]

\* variant: the accepted submit leaves the document of the earlier record
SubmitSection_KeepsDocx(S, ev) ==
    IF ev.type # "submit" THEN S
    ELSE IF S.line_items = <<>>
    THEN [S EXCEPT !.page.warning = TRUE,
                   !.invoice_data_ready = FALSE,
                   !.generated_docx_data = <<>>,
                   !.generated_docx_filename = <<>>]
    ELSE [S EXCEPT !.page.success = TRUE,
                   !.invoice_data_for_preview = <<invoice_data(S.form, S.summary)>>,
                   !.invoice_data_ready = TRUE]

\* lines 481-511
SubmitSection(S, ev) ==
    IF ev.type # "submit" THEN S
    ELSE IF S.line_items = <<>>
    THEN [S EXCEPT !.page.warning = TRUE,
                   !.invoice_data_ready = FALSE,
                   !.generated_docx_data = <<>>,
                   !.generated_docx_filename = <<>>]
    ELSE [S EXCEPT !.page.success = TRUE,
                   !.invoice_data_for_preview = <<invoice_data(S.form, S.summary)>>,
                   !.invoice_data_ready = TRUE,
                   !.generated_docx_data = <<>>]

\* variant: the download button is shown whenever a generated document is held
PreviewSection_StoredDownload(S, ev) ==
    IF S.invoice_data_ready /\ ev.type = "generate"
    THEN LET preview_data == Resolve(S.invoice_data_for_preview[1], S.line_items)
             docx_file_bytes == generate_invoice_docx(preview_data)
         IN  [S EXCEPT !.generated_docx_data = <<docx_file_bytes>>,
                       !.generated_docx_filename = <<DocxFilename(preview_data)>>,
                       !.page.download = <<[data |-> docx_file_bytes,
                                            file_name |-> DocxFilename(preview_data)]>>]
    ELSE IF S.generated_docx_data # <<>>
    THEN [S EXCEPT !.page.download = <<[data |-> S.generated_docx_data[1],
                                        file_name |-> S.generated_docx_filename[1]]>>]
    ELSE S

\* lines 514-573
PreviewSection(S, ev) ==
    IF S.invoice_data_ready /\ ev.type = "generate"
    THEN LET preview_data == Resolve(S.invoice_data_for_preview[1], S.line_items)
             docx_file_bytes == generate_invoice_docx(preview_data)
         IN  [S EXCEPT !.generated_docx_data = <<docx_file_bytes>>,
                       !.generated_docx_filename = <<DocxFilename(preview_data)>>,
                       !.page.download = <<[data |-> docx_file_bytes,
                                            file_name |-> DocxFilename(preview_data)]>>]
    ELSE S

\* lines 446-573: everything after the item section
FormAndPreview(S, ev) == PreviewSection(SubmitSection(S, ev), ev)

\* variant: the deletion is not followed by a new execution
Script_NoRerun(S, ev) ==
    FormAndPreview(RemoveSection(LoopSection(AddSection([S EXCEPT !.page = NoPage], ev)), ev), ev)

\* lines 401-573; st.experimental_rerun() (line 443) abandons the execution after the
\* deletion and starts the script again, with no event
RECURSIVE Script(_, _)
Script(S, ev) ==
    LET looped == LoopSection(AddSection([S EXCEPT !.page = NoPage], ev)) IN
    IF ev.type = "remove"
    THEN Script(RemoveSection(looped, ev), NoEvent)
    ELSE FormAndPreview(looped, ev)

---------------------------------------------------------------------------
(* The session as a record, and the state after an execution *)

Session ==
    [line_items |-> line_items,
     widgets |-> widgets,
     form |-> form,
     invoice_data_ready |-> invoice_data_ready,
     invoice_data_for_preview |-> invoice_data_for_preview,
     generated_docx_data |-> generated_docx_data,
     generated_docx_filename |-> generated_docx_filename,
     summary |-> summary,
     page |-> ui]

Becomes(S) ==
    /\ line_items' = S.line_items
    /\ widgets' = S.widgets
    /\ form' = S.form
    /\ invoice_data_ready' = S.invoice_data_ready
    /\ invoice_data_for_preview' = S.invoice_data_for_preview
    /\ generated_docx_data' = S.generated_docx_data
    /\ generated_docx_filename' = S.generated_docx_filename
    /\ summary' = S.summary
    /\ ui' = S.page

\* one interaction: the event reaches the server and the script runs on it
Interaction(S, ev) ==
    /\ runs' = runs + 1
    /\ last_event' = ev
    /\ Becomes(Script(S, ev))

\* the first execution of the script in a new session (lines 405-409 set the state)
Init ==
    /\ line_items = <<>>
    /\ widgets = <<>>
    /\ form = DefaultForm
    /\ invoice_data_ready = FALSE
    /\ invoice_data_for_preview = <<>>
    /\ generated_docx_data = <<>>
    /\ generated_docx_filename = <<>>
    /\ summary = Totals(0)
    /\ ui = NoPage
    /\ last_event = NoEvent
    /\ runs = 0

\* a click on "Add New Item"
AddItem ==
    /\ runs < MaxRuns
    /\ Interaction(Session, [type |-> "add", i |-> 0])

\* the user changes the description, unit price or quantity widget of item i
EditDescription ==
    \E i \in 1..Len(widgets), v \in Descriptions :
        /\ runs < MaxRuns
        /\ v # widgets[i].description.value
        /\ Interaction([Session EXCEPT !.widgets = FrontendEdit(widgets, i, "description", v)],
                       [type |-> "edit", i |-> i])

EditUnitPrice ==
    \E i \in 1..Len(widgets), v \in TypedUnitPrices :
        /\ runs < MaxRuns
        /\ number_input_accepts(price_min_value, v)
        /\ v # widgets[i].unit_price.value
        /\ Interaction([Session EXCEPT !.widgets = FrontendEdit(widgets, i, "unit_price", v)],
                       [type |-> "edit", i |-> i])

EditQuantity ==
    \E i \in 1..Len(widgets), v \in TypedQuantities :
        /\ runs < MaxRuns
        /\ number_input_accepts(qty_min_value, v)
        /\ v # widgets[i].quantity.value
        /\ Interaction([Session EXCEPT !.widgets = FrontendEdit(widgets, i, "quantity", v)],
                       [type |-> "edit", i |-> i])

\* a click on "Remove Item i"
RemoveItem ==
    \E i \in 1..Len(widgets) :
        /\ runs < MaxRuns
        /\ Interaction(Session, [type |-> "remove", i |-> i])

\* a click on "Generate Invoice Preview": the form's widget values arrive with it
Submit ==
    \E f \in Forms :
        /\ runs < MaxRuns
        /\ Interaction([Session EXCEPT !.form = f], [type |-> "submit", i |-> 0])

\* a click on "Generate & Download Word Document", a button of the preview
Generate ==
    /\ runs < MaxRuns
    /\ invoice_data_ready
    /\ Interaction(Session, [type |-> "generate", i |-> 0])

Next ==
    \/ AddItem
    \/ EditDescription
    \/ EditUnitPrice
    \/ EditQuantity
    \/ RemoveItem
    \/ Submit
    \/ Generate

Spec == Init /\ [][Next]_vars

---------------------------------------------------------------------------
(* Properties *)

\* the stored record as the preview and the renderer read it
Record == Resolve(invoice_data_for_preview[1], line_items)

RECURSIVE SumProducts(_)
SumProducts(items) ==
    IF items = <<>> THEN 0
    ELSE SumProducts(Tail(items)) + Head(items).unit_price * Head(items).quantity

Abs(x) == IF x < 0 THEN -x ELSE x

ItemStep == last_event'.type \in {"add", "edit", "remove"} /\ runs' = runs + 1
SubmitStep == last_event'.type = "submit" /\ runs' = runs + 1
RemoveStep(i) == last_event'.type = "remove" /\ last_event'.i = i /\ runs' = runs + 1

\* C1: once a record is stored, no add, edit or remove of items changes its line
\* items or its subtotal, vat_amount and grand_total.
C1_RecordImmutable ==
    [][(invoice_data_for_preview # <<>> /\ ItemStep) =>
          (invoice_data_for_preview' # <<>> /\ Record' = Record)]_vars

\* C2: whenever the preview is shown, the stored record's subtotal is the sum of
\* the total_price of its own line items, its vat_amount is a tenth of the
\* subtotal and its grand_total is subtotal plus vat_amount.
C2_RecordInvariant ==
    invoice_data_ready =>
        /\ Record.subtotal = SumTotals(Record.line_items)
        /\ 10 * Record.vat_amount = Record.subtotal
        /\ Record.grand_total = Record.subtotal + Record.vat_amount

\* C3: after every interaction that leaves a non-empty list, the subtotal of the
\* page is the sum of unit_price x quantity over exactly the items of the list.
C3_SubtotalOfCurrentItems ==
    line_items # <<>> => summary.total_subtotal = SumProducts(line_items)

C3_Witness ==
    /\ last_event.type = "remove"
    /\ Len(line_items) = 1
    /\ summary.total_subtotal > 0

\* C4: vat_amount is subtotal x 0.10 rounded to three decimals (a whole number of
\* mils within half a mil of the tenth), and grand_total is subtotal plus it.
C4_VatRoundedToMils ==
    /\ summary.vat_amount % Mil = 0
    /\ 2 * Abs(10 * summary.vat_amount - summary.total_subtotal) <= 10 * Mil
    /\ summary.grand_total = summary.total_subtotal + summary.vat_amount

\* C5: a submit with an empty list warns, stores no record, and leaves the preview
\* not ready and no generated document or file name, whatever was there before.
C5_EmptySubmitRejected ==
    [][(SubmitStep /\ line_items = <<>>) =>
          /\ ui'.warning
          /\ ~ui'.success
          /\ invoice_data_for_preview' = invoice_data_for_preview
          /\ ~invoice_data_ready'
          /\ generated_docx_data' = <<>>
          /\ generated_docx_filename' = <<>>]_vars

C5_Witness ==
    /\ last_event.type = "submit"
    /\ ui.warning
    /\ invoice_data_for_preview # <<>>

\* C6: removing item i of N leaves the other N-1 items in their order, each with
\* its own description, unit_price and quantity, shown at positions 1..N-1.
C6_RemoveKeepsOthers ==
    [][\A i \in 1..Len(line_items) :
          RemoveStep(i) =>
              /\ Len(line_items') = Len(line_items) - 1
              /\ DOMAIN widgets' = 1..(Len(line_items) - 1)
              /\ \A k \in 1..(Len(line_items) - 1) :
                    LET old == line_items[IF k < i THEN k ELSE k + 1] IN
                    /\ line_items'[k].description = old.description
                    /\ line_items'[k].unit_price = old.unit_price
                    /\ line_items'[k].quantity = old.quantity]_vars

\* the middle one of three distinguishable items has been removed
C6_Witness ==
    /\ last_event = [type |-> "remove", i |-> 2]
    /\ Len(line_items) = 2
    /\ line_items[1].description # line_items[2].description

IsExample ==
    /\ Len(line_items) = 1
    /\ line_items[1].description = "Consulting"
    /\ line_items[1].unit_price = 100 * BHD
    /\ line_items[1].quantity = 2

\* C8: for the single item {"Consulting", 100.000, 2} the line total is 200.000,
\* the subtotal 200.000, the VAT 20.000 and the grand total 220.000, and a submit
\* in that state stores a record with these totals.
C8_ConsultingExample ==
    IsExample =>
        /\ line_items[1].total_price = 200 * BHD
        /\ summary = [total_subtotal |-> 200 * BHD, vat_amount |-> 20 * BHD,
                      grand_total |-> 220 * BHD]
        /\ ui.success =>
              /\ Record.line_items = line_items
              /\ Record.subtotal = 200 * BHD
              /\ Record.vat_amount = 20 * BHD
              /\ Record.grand_total = 220 * BHD

C8_Witness == IsExample /\ ui.success

\* C9: whenever the preview is ready the record handed to the renderer has at
\* least one line item, and every document offered has an item row.
C9_NoDocumentWithoutItems ==
    /\ invoice_data_ready => (invoice_data_for_preview # <<>> /\ Len(Record.line_items) >= 1)
    /\ ui.download # <<>> => ui.download[1].data.item_table[2][1] = Str(1)

\* a document is offered for a one-item list late in a session
C9_Witness ==
    /\ invoice_data_ready
    /\ ui.download # <<>>
    /\ Len(line_items) = 1
    /\ runs >= 5

\* C10: a submit with a non-empty list stores one record made of the form's
\* values of that submit, the session's item list and the totals of its items,
\* makes the preview ready and clears any document generated before.
C10_SubmitSupersedes ==
    [][(SubmitStep /\ line_items # <<>>) =>
          /\ ui'.success
          /\ invoice_data_for_preview' =
                <<invoice_data(form', Totals(SumProducts(line_items')))>>
          /\ Record'.line_items = line_items
          /\ invoice_data_ready'
          /\ generated_docx_data' = <<>>]_vars

\* a second record, after a document had been generated from the first
C10_Witness ==
    /\ last_event.type = "submit"
    /\ ui.success
    /\ generated_docx_filename # <<>>
    /\ generated_docx_filename[1] # DocxFilename(Record)

AddStep == last_event'.type = "add" /\ runs' = runs + 1

\* C11: add-item appends one item with empty description, unit_price 0.000,
\* total_price 0.000 and a zero quantity at the end of the list, and leaves the
\* existing items and their order unchanged.
C11_AddAppendsZeroItem ==
    [][AddStep =>
          line_items' = Append(line_items, [description |-> "", unit_price |-> 0,
                                            quantity |-> 0, total_price |-> 0])]_vars

\* C11, amended: the same with quantity 1 for the new item.
C11_AddAppendsDefaultItem ==
    [][AddStep =>
          line_items' = Append(line_items, [description |-> "", unit_price |-> 0,
                                            quantity |-> 1, total_price |-> 0])]_vars

\* an item has been added behind an edited one
C11_Witness ==
    /\ last_event.type = "add"
    /\ Len(line_items) = 2
    /\ line_items[1].description = "Consulting"

\* C12: after every interaction each item has total_price = unit_price x quantity,
\* unit_price >= 0 and an integer quantity >= 1; hence the subtotal is >= 0 and the
\* grand total is >= the subtotal.
C12_ItemsWellFormed ==
    /\ \A k \in 1..Len(line_items) :
          /\ line_items[k].total_price = line_items[k].unit_price * line_items[k].quantity
          /\ line_items[k].unit_price >= 0
          /\ line_items[k].quantity \in Nat
          /\ line_items[k].quantity >= 1
    /\ summary.total_subtotal >= 0
    /\ summary.grand_total >= summary.total_subtotal

\* an item with an edited price and quantity is left after a removal
C12_Witness ==
    /\ last_event.type = "remove"
    /\ Len(line_items) = 1
    /\ line_items[1].unit_price > 0
    /\ line_items[1].quantity = 2

Max(a, b) == IF a >= b THEN a ELSE b

\* the line-items table of the document rendered from the stored record
RenderedTable == generate_invoice_docx(Record).item_table

\* C13: for a record with N >= 1 items the rendered line-items table is one header
\* row, then N item rows, then max(0, 5 - N) blank rows (1 + max(N, 5) rows); item
\* row k carries k and the description, unit price, quantity and total price of
\* the k-th item of the record.
C13_TableRows ==
    (invoice_data_ready /\ Len(Record.line_items) >= 1) =>
        LET N == Len(Record.line_items)
            t == RenderedTable
        IN  /\ Len(t) = 1 + Max(N, 5)
            /\ Len(t) = 1 + N + Max(0, 5 - N)
            /\ [c \in 1..7 |-> t[1][c].s] =
                  <<<<"No">>, <<"Description">>, <<"Unit price">>, <<"BHD">>,
                    <<"Qty">>, <<"Total price">>, <<"BHD">> >>
            /\ \A k \in 1..N :
                  LET item == Record.line_items[k] IN
                  /\ Len(t[k + 1]) = 7
                  /\ t[k + 1][1].n = {k}
                  /\ t[k + 1][2].s = <<item.description>>
                  /\ t[k + 1][3].n = {item.unit_price \div Mil}
                  /\ item.unit_price % Mil = 0
                  /\ t[k + 1][5].n = {item.quantity}
                  /\ t[k + 1][6].n = {item.total_price \div Mil}
                  /\ item.total_price % Mil = 0
            /\ \A r \in (N + 2)..Len(t) :
                  \A c \in 1..7 : t[r][c] = [s |-> <<"">>, n |-> {}]
            /\ ui.download # <<>> => ui.download[1].data.item_table = t

\* a document has been generated for two different items
C13_Witness ==
    /\ ui.download # <<>>
    /\ Len(line_items) = 2
    /\ line_items[1].unit_price # line_items[2].unit_price

StaysHidden ==
    /\ ~invoice_data_ready'
    /\ generated_docx_data' = <<>>
    /\ ui'.download = <<>>

\* C14: right after an add or a remove the preview flag is false and no generated
\* document is held, and both stay so, with no download offered, until the next
\* accepted submit.
C14_HiddenUntilSubmit ==
    [][/\ (last_event'.type \in {"add", "remove"} /\ runs' = runs + 1) => StaysHidden
       /\ (~invoice_data_ready /\ generated_docx_data = <<>> /\ ~ui'.success) => StaysHidden]_vars

\* a document was generated, the items changed, and an edit later nothing is shown
C14_Witness ==
    /\ last_event.type = "edit"
    /\ generated_docx_filename # <<>>
    /\ ~invoice_data_ready
    /\ line_items # <<>>

\* C15: a download is offered only by the execution of a generate click made while
\* the preview was ready; its file name is "Invoice_" + the stored record's invoice
\* number + ".docx" and its bytes are the render of that stored record.
C15_DownloadOfStoredRecord ==
    [][ui'.download # <<>> =>
          /\ last_event'.type = "generate"
          /\ invoice_data_ready
          /\ invoice_data_for_preview' = invoice_data_for_preview
          /\ ui'.download[1].file_name =
                <<"Invoice_", invoice_data_for_preview[1].sss_invoice_no, ".docx">>
          /\ ui'.download[1].data = generate_invoice_docx(Record')
          /\ generated_docx_data' = <<ui'.download[1].data>>
          /\ generated_docx_filename' = <<ui'.download[1].file_name>>]_vars

\* a document is offered for a record whose invoice number is not the default
C15_Witness ==
    /\ ui.download # <<>>
    /\ last_event.type = "generate"
    /\ ui.download[1].file_name = <<"Invoice_", "SSS-261102-002", ".docx">>

=============================================================================
